---- MODULE Spec2Model ----
(***************************************************************************)
(* A model of the school-library chat agent (library_agent.py) and of the  *)
(* store that setup_database.py creates.                                   *)
(*                                                                         *)
(* Text is modelled character by character: a Python str is a TLA+ string, *)
(* indexed with SubSeq.  The alphabet is ASCII; the emoji that the         *)
(* formatters put in front of headings are left out of the modelled text.  *)
(***************************************************************************)
EXTENDS Integers, Sequences, FiniteSets, TLC

(***************************************************************************)
(* str helpers                                                             *)
(***************************************************************************)
CharAt(s, i) == SubSeq(s, i, i)

UpperToLower ==
    ("A" :> "a") @@ ("B" :> "b") @@ ("C" :> "c") @@ ("D" :> "d") @@
    ("E" :> "e") @@ ("F" :> "f") @@ ("G" :> "g") @@ ("H" :> "h") @@
    ("I" :> "i") @@ ("J" :> "j") @@ ("K" :> "k") @@ ("L" :> "l") @@
    ("M" :> "m") @@ ("N" :> "n") @@ ("O" :> "o") @@ ("P" :> "p") @@
    ("Q" :> "q") @@ ("R" :> "r") @@ ("S" :> "s") @@ ("T" :> "t") @@
    ("U" :> "u") @@ ("V" :> "v") @@ ("W" :> "w") @@ ("X" :> "x") @@
    ("Y" :> "y") @@ ("Z" :> "z")

LowerToUpper ==
    ("a" :> "A") @@ ("b" :> "B") @@ ("c" :> "C") @@ ("d" :> "D") @@
    ("e" :> "E") @@ ("f" :> "F") @@ ("g" :> "G") @@ ("h" :> "H") @@
    ("i" :> "I") @@ ("j" :> "J") @@ ("k" :> "K") @@ ("l" :> "L") @@
    ("m" :> "M") @@ ("n" :> "N") @@ ("o" :> "O") @@ ("p" :> "P") @@
    ("q" :> "Q") @@ ("r" :> "R") @@ ("s" :> "S") @@ ("t" :> "T") @@
    ("u" :> "U") @@ ("v" :> "V") @@ ("w" :> "W") @@ ("x" :> "X") @@
    ("y" :> "Y") @@ ("z" :> "Z")

Digits == {"0", "1", "2", "3", "4", "5", "6", "7", "8", "9"}

Whitespace == {" ", "\t", "\n", "\r"}

IsWordChar(c) ==
    c \in DOMAIN UpperToLower \/ c \in DOMAIN LowerToUpper \/ c \in Digits \/ c = "_"

LowerChar(c) == IF c \in DOMAIN UpperToLower THEN UpperToLower[c] ELSE c

RECURSIVE LowerFrom(_, _)
LowerFrom(s, i) ==
    IF i > Len(s) THEN "" ELSE LowerChar(CharAt(s, i)) \o LowerFrom(s, i + 1)

\* str.lower()
Lower(s) == LowerFrom(s, 1)

RECURSIVE FirstNonSpace(_, _)
FirstNonSpace(s, i) ==
    IF i > Len(s) \/ CharAt(s, i) \notin Whitespace THEN i ELSE FirstNonSpace(s, i + 1)

RECURSIVE LastNonSpace(_, _)
LastNonSpace(s, j) ==
    IF j < 1 \/ CharAt(s, j) \notin Whitespace THEN j ELSE LastNonSpace(s, j - 1)

\* str.strip()
Strip(s) ==
    LET i == FirstNonSpace(s, 1)
        j == LastNonSpace(s, Len(s))
    IN  IF i > j THEN "" ELSE SubSeq(s, i, j)

\* s[i:].startswith(w), 1-based
StartsWithAt(s, i, w) ==
    /\ i + Len(w) - 1 <= Len(s)
    /\ SubSeq(s, i, i + Len(w) - 1) = w

\* w in s
Contains(s, w) == \E i \in 1..(Len(s) - Len(w) + 1) : StartsWithAt(s, i, w)

(***************************************************************************)
(* re: the fragment of regular expressions the pattern table uses.  Every  *)
(* pattern of the table has at most one capture group, so a pattern is     *)
(*   pre   the elements before the group,                                  *)
(*   cap   the group: "lazy" (.+?), "greedy" (.+), "digits" (\d+), "none", *)
(*   post  the elements after the group.                                   *)
(* An element is an ordered alternation of literals (an optional literal   *)
(* x? is the alternation x|empty, tried in that order) or the anchor $.    *)
(* Matching follows re's backtracking search: the leftmost start, the      *)
(* alternatives in order, a lazy group shortest first, a greedy group      *)
(* longest first.                                                          *)
(***************************************************************************)
Alt(alts) == [k |-> "alt", alts |-> alts]
Lit(s) == Alt(<<s>>)
Opt(s) == Alt(<<s, "">>)
AtEnd == [k |-> "end", alts |-> <<>>]

Pattern(pre, cap, post) == [pre |-> pre, cap |-> cap, post |-> post]
Plain(pre) == Pattern(pre, "none", <<>>)

NoMatch == [ok |-> FALSE, cap |-> "", start |-> 0]

\* '.' matches any character but a newline
IsDot(c) == c # "\n"

\* $ matches at the end of the string and before a newline that ends it
IsAtEnd(s, i) == i = Len(s) + 1 \/ (i = Len(s) /\ CharAt(s, i) = "\n")

\* the positions, in backtracking order, where elements k.. of pre can end
\* when they start at s[i]
RECURSIVE PrefixEnds(_, _, _, _)
RECURSIVE PrefixAlts(_, _, _, _, _)
PrefixEnds(pre, k, s, i) ==
    IF k > Len(pre) THEN <<i>> ELSE PrefixAlts(pre, k, s, i, 1)

PrefixAlts(pre, k, s, i, a) ==
    IF a > Len(pre[k].alts) THEN <<>>
    ELSE LET w == pre[k].alts[a]
         IN  (IF StartsWithAt(s, i, w) THEN PrefixEnds(pre, k + 1, s, i + Len(w)) ELSE <<>>)
             \o PrefixAlts(pre, k, s, i, a + 1)

\* whether elements k.. of post match at s[j]
RECURSIVE PostMatch(_, _, _, _)
PostMatch(post, k, s, j) ==
    IF k > Len(post) THEN TRUE
    ELSE IF post[k].k = "end" THEN IsAtEnd(s, j) /\ PostMatch(post, k + 1, s, j)
    ELSE \E a \in DOMAIN post[k].alts :
            /\ StartsWithAt(s, j, post[k].alts[a])
            /\ PostMatch(post, k + 1, s, j + Len(post[k].alts[a]))

\* PostMatch at every position j..Len(s)+1, as a sequence
RECURSIVE PostOk(_, _, _)
PostOk(post, s, j) ==
    IF j > Len(s) + 1 THEN <<>> ELSE <<PostMatch(post, 1, s, j)>> \o PostOk(post, s, j + 1)

\* the characters a group may take: 1..max(run of '.' or \d from e)
CapStop(kind, s, e) ==
    LET stops == {t \in e..Len(s) :
                    IF kind = "digits" THEN CharAt(s, t) \notin Digits
                    ELSE ~IsDot(CharAt(s, t))}
    IN  IF stops = {} THEN Len(s) + 1 ELSE CHOOSE t \in stops : \A u \in stops : t <= u

\* the length the group takes when it starts at s[e]; 0 when it cannot match
CapLen(kind, s, e, ok) ==
    LET stop == CapStop(kind, s, e)
        ends == {j \in (e + 1)..stop : ok[j]}
    IN  IF ends = {} THEN 0
        ELSE IF kind = "lazy" THEN (CHOOSE j \in ends : \A u \in ends : j <= u) - e
        ELSE (CHOOSE j \in ends : \A u \in ends : j >= u) - e

RECURSIVE TryEnds(_, _, _, _, _)
TryEnds(p, s, ends, n, ok) ==
    IF n > Len(ends) THEN NoMatch
    ELSE IF p.cap = "none" THEN [ok |-> TRUE, cap |-> "", start |-> 0]
    ELSE LET len == CapLen(p.cap, s, ends[n], ok)
         IN  IF len > 0
             THEN [ok |-> TRUE, cap |-> SubSeq(s, ends[n], ends[n] + len - 1), start |-> 0]
             ELSE TryEnds(p, s, ends, n + 1, ok)

RECURSIVE SearchFrom(_, _, _, _)
SearchFrom(p, s, i, ok) ==
    IF i > Len(s) + 1 THEN NoMatch
    ELSE LET ends == PrefixEnds(p.pre, 1, s, i)
             r == IF ends = <<>> THEN NoMatch ELSE TryEnds(p, s, ends, 1, ok)
         IN  IF r.ok THEN [r EXCEPT !.start = i] ELSE SearchFrom(p, s, i + 1, ok)

\* re.search(pattern, s): the leftmost match; group(1) is cap
ReSearch(p, s) ==
    LET ok == PostOk(p.post, s, 1)
    IN  IF p.cap # "none" /\ p.pre = <<>> /\ \A j \in DOMAIN ok : ~ok[j]
        THEN NoMatch
        ELSE SearchFrom(p, s, 1, ok)

(***************************************************************************)
(* The pattern table                                                       *)
(***************************************************************************)
Entry(re, handler) == [re |-> re, handler |-> handler]

WhatWhich == Alt(<<"what", "which">>)
WhichWhat == Alt(<<"which", "what">>)
Books == <<Lit("book"), Opt("s")>>
AreIs == Alt(<<"are", "is">>)

\* the list _build_patterns returns
PatternTable ==
    << \* Books borrowed by a student
       Entry(Pattern(<<WhatWhich, Lit(" ")>> \o Books \o
                     <<Lit(" "), Alt(<<"did", "has", "have">>), Lit(" ")>>,
                     "lazy", <<Lit(" borrow")>>), "student_borrowings"),
       Entry(Pattern(Books \o <<Lit(" borrowed by ")>>, "greedy", <<>>),
             "student_borrowings"),
       Entry(Pattern(<<>>, "lazy", <<Opt("'s"), Lit(" "), Opt("borrowed ")>> \o Books),
             "student_borrowings"),
       \* Available books
       Entry(Plain(<<WhichWhat, Lit(" ")>> \o Books \o
                   <<Lit(" "), AreIs, Lit(" "), Opt("currently "), Lit("available")>>),
             "available_books"),
       Entry(Plain(<<Lit("available ")>> \o Books), "available_books"),
       Entry(Plain(Books \o <<Lit(" "), Opt("that are "), Alt(<<"in stock", "available">>)>>),
             "available_books"),
       \* Unavailable/borrowed out books
       Entry(Plain(<<WhichWhat, Lit(" ")>> \o Books \o
                   <<Lit(" "), AreIs, Lit(" "),
                     Alt(<<"not available", "unavailable", "borrowed out">>)>>),
             "unavailable_books"),
       Entry(Plain(<<Lit("unavailable ")>> \o Books), "unavailable_books"),
       \* All books
       Entry(Plain(<<Alt(<<"list", "show", "get", "what are">>), Lit(" "), Opt("all "),
                     Opt("the ")>> \o Books), "all_books"),
       Entry(Plain(<<Lit("all ")>> \o Books), "all_books"),
       \* Search by author
       Entry(Pattern(Books \o <<Lit(" "), Opt("written "), Lit("by ")>>, "greedy", <<>>),
             "search_by_author"),
       Entry(Pattern(<<Alt(<<"find", "search", "get">>), Lit(" ")>>, "lazy",
                     <<Opt("'s"), Lit(" ")>> \o Books), "search_by_author"),
       \* Search by genre
       Entry(Pattern(<<>>, "lazy", <<Lit(" ")>> \o Books \o <<AtEnd>>), "search_by_genre"),
       Entry(Pattern(Books \o <<Lit(" "), Alt(<<"in", "of">>), Lit(" "), Opt("the ")>>,
                     "lazy", <<Lit(" genre")>>), "search_by_genre"),
       \* Book availability check
       Entry(Pattern(<<Alt(<<"is", "are">>), Lit(" ")>>, "lazy", <<Lit(" available")>>),
             "book_availability"),
       Entry(Pattern(<<Alt(<<"check", "find">>), Lit(" availability "),
                       Alt(<<"of", "for">>), Lit(" ")>>, "greedy", <<>>),
             "book_availability"),
       Entry(Pattern(<<Alt(<<"do you have", "have">>), Lit(" ")>>, "greedy", <<>>),
             "book_availability"),
       \* Current borrowings
       Entry(Plain(<<Alt(<<"current", "active">>), Lit(" borrowing"), Opt("s")>>),
             "current_borrowings"),
       Entry(Plain(<<Alt(<<"who", "which students", "which student">>), Lit(" "),
                     Alt(<<"has", "have">>), Lit(" borrowed")>>), "current_borrowings"),
       Entry(Plain(<<WhatWhich, Lit(" ")>> \o Books \o
                   <<Lit(" "), AreIs, Lit(" "), Opt("currently "), Lit("borrowed")>>),
             "current_borrowings"),
       \* Overdue books
       Entry(Plain(<<Lit("overdue ")>> \o Books), "overdue_books"),
       Entry(Plain(<<WhichWhat, Lit(" ")>> \o Books \o <<Lit(" "), AreIs, Lit(" overdue")>>),
             "overdue_books"),
       Entry(Plain(<<Lit("late "), Alt(<<"returns", "return", "books", "book">>)>>),
             "overdue_books"),
       \* All students
       Entry(Plain(<<Alt(<<"list", "show", "get", "all">>), Lit(" student"), Opt("s")>>),
             "all_students"),
       Entry(Plain(<<Alt(<<"who are", "which">>), Lit(" "), Opt("the "), Lit("student"),
                     Opt("s")>>), "all_students"),
       \* Students by grade
       Entry(Pattern(<<Lit("student"), Opt("s"), Lit(" in grade ")>>, "digits", <<>>),
             "students_by_grade"),
       Entry(Pattern(<<Lit("grade ")>>, "digits", <<Lit(" student"), Opt("s")>>),
             "students_by_grade"),
       \* Library stats
       Entry(Plain(<<Opt("library "),
                     Alt(<<"stats", "stat", "statistics", "summary", "overview">>)>>),
             "library_stats"),
       Entry(Plain(<<Lit("how many ")>> \o Books), "library_stats"),
       \* Borrowing history
       Entry(Plain(<<Lit("borrowing history")>>), "borrowing_history"),
       Entry(Plain(<<Opt("all "), Lit("borrowing"), Opt("s")>>), "borrowing_history"),
       \* Help
       Entry(Plain(<<Alt(<<"help", "what can you do", "commands", "command">>)>>), "help")
    >>

\* a table that tries the generic '<text> books' entry before the student's
BuildPatternsGenreFirst ==
    <<PatternTable[13]>> \o SubSeq(PatternTable, 1, 12) \o SubSeq(PatternTable, 14, Len(PatternTable))

\* self._build_patterns()
BuildPatterns == PatternTable

(***************************************************************************)
(* The store.  A table is the sequence of its rows in rowid order, the     *)
(* order in which SQLite scans it.  A date is the text 'YYYY-MM-DD', held  *)
(* as <<year, month, day>> and compared as SQLite compares the texts, left *)
(* to right; NULL is Null.  The columns isbn and published_year, which no  *)
(* query filters on and no formatter prints, are left out; the text and    *)
(* integer columns of the modelled stores hold no NULL.                    *)
(***************************************************************************)
Null == <<>>

Book(id, title, author, genre, total, available) ==
    [id |-> id, title |-> title, author |-> author, genre |-> genre,
     total_copies |-> total, available_copies |-> available]

Student(id, name, grade, code) ==
    [id |-> id, name |-> name, grade |-> grade, student_id |-> code]

Borrowing(id, student, book, borrowed, due, returned) ==
    [id |-> id, student_id |-> student, book_id |-> book,
     borrow_date |-> borrowed, due_date |-> due, return_date |-> returned]

\* the rows setup_database inserts
BooksData ==
    << Book(1, "The Hobbit", "J.R.R. Tolkien", "Fantasy", 5, 3),
       Book(2, "1984", "George Orwell", "Dystopia", 4, 1),
       Book(3, "To Kill a Mockingbird", "Harper Lee", "Fiction", 6, 4),
       Book(4, "Pride and Prejudice", "Jane Austen", "Romance", 3, 3),
       Book(5, "The Great Gatsby", "F. Scott Fitzgerald", "Fiction", 4, 2),
       Book(6, "Harry Potter and the Sorcerer's Stone", "J.K. Rowling", "Fantasy", 8, 5),
       Book(7, "The Catcher in the Rye", "J.D. Salinger", "Fiction", 3, 0),
       Book(8, "Lord of the Flies", "William Golding", "Fiction", 4, 4),
       Book(9, "Animal Farm", "George Orwell", "Dystopia", 5, 3),
       Book(10, "Brave New World", "Aldous Huxley", "Dystopia", 3, 2),
       Book(11, "The Diary of a Young Girl", "Anne Frank", "Biography", 4, 4),
       Book(12, "Charlotte's Web", "E.B. White", "Children", 6, 6) >>

StudentsData ==
    << Student(1, "Alice Chan", 10, "S2023001"),
       Student(2, "Bob Lee", 11, "S2023005"),
       Student(3, "Carol Martinez", 9, "S2023012"),
       Student(4, "David Kim", 10, "S2023018"),
       Student(5, "Emma Wilson", 12, "S2023022"),
       Student(6, "Frank Zhang", 11, "S2023030"),
       Student(7, "Grace Johnson", 9, "S2023035"),
       Student(8, "Henry Brown", 12, "S2023041") >>

BorrowingsData ==
    << Borrowing(1, 1, 1, <<2026, 1, 15>>, <<2026, 2, 15>>, Null),
       Borrowing(2, 1, 2, <<2025, 12, 1>>, <<2025, 12, 15>>, <<2025, 12, 14>>),
       Borrowing(3, 2, 2, <<2026, 1, 20>>, <<2026, 2, 20>>, Null),
       Borrowing(4, 2, 5, <<2026, 1, 25>>, <<2026, 2, 25>>, Null),
       Borrowing(5, 3, 7, <<2026, 1, 10>>, <<2026, 2, 10>>, Null),
       Borrowing(6, 4, 6, <<2026, 1, 28>>, <<2026, 2, 28>>, Null),
       Borrowing(7, 5, 2, <<2026, 1, 18>>, <<2026, 2, 18>>, Null),
       Borrowing(8, 5, 10, <<2026, 1, 22>>, <<2026, 2, 22>>, Null),
       Borrowing(9, 6, 1, <<2025, 11, 1>>, <<2025, 11, 15>>, <<2025, 11, 14>>),
       Borrowing(10, 7, 6, <<2026, 1, 30>>, <<2026, 3, 1>>, Null),
       Borrowing(11, 7, 9, <<2026, 1, 30>>, <<2026, 3, 1>>, Null),
       Borrowing(12, 8, 7, <<2026, 1, 5>>, <<2026, 2, 5>>, Null),
       Borrowing(13, 8, 7, <<2025, 12, 20>>, <<2026, 1, 20>>, <<2026, 1, 19>>) >>

\* a < b for two date texts; a comparison with NULL is not true
DateLess(a, b) ==
    /\ a # Null
    /\ b # Null
    /\ \/ a[1] < b[1]
       \/ a[1] = b[1] /\ a[2] < b[2]
       \/ a[1] = b[1] /\ a[2] = b[2] /\ a[3] < b[3]

\* ORDER BY puts NULL before every value
OrderLess(a, b) == IF a = Null THEN b # Null ELSE DateLess(a, b)

\* [f(r) for r in rows if keep(r)]
RECURSIVE SelectRows(_, _, _)
SelectRows(rows, i, keep) ==
    IF i > Len(rows) THEN <<>>
    ELSE (IF keep[i] THEN <<rows[i]>> ELSE <<>>) \o SelectRows(rows, i + 1, keep)

Where(rows, keep) == SelectRows(rows, 1, keep)

\* x LIKE pattern: % is any run of characters, _ any one character, letters
\* compare without regard to case
RECURSIVE LikeFrom(_, _, _, _)
LikeFrom(p, i, t, j) ==
    IF i > Len(p) THEN j > Len(t)
    ELSE LET c == CharAt(p, i)
         IN  IF c = "%"
             THEN \E j2 \in j..(Len(t) + 1) : LikeFrom(p, i + 1, t, j2)
             ELSE /\ j <= Len(t)
                  /\ c = "_" \/ LowerChar(CharAt(t, j)) = LowerChar(c)
                  /\ LikeFrom(p, i + 1, t, j + 1)

\* LOWER(column) LIKE LOWER('%' || term || '%')
LikeContains(column, term) == LikeFrom("%" \o term \o "%", 1, column, 1)

\* the orders ORDER BY field [DESC] may return the rows of S in: every
\* order that is sorted by the field; rows with equal keys come in any order
RECURSIVE SortedOrders(_, _, _)
SortedOrders(S, field, desc) ==
    IF S = {} THEN {<<>>}
    ELSE LET first == {r \in S : \A o \in S :
                          IF desc THEN ~OrderLess(r[field], o[field])
                          ELSE ~OrderLess(o[field], r[field])}
         IN  UNION {{<<r>> \o rest : rest \in SortedOrders(S \ {r}, field, desc)} :
                    r \in first}

\* borrowings br JOIN books b ON br.book_id = b.id JOIN students s ON br.student_id = s.id
\* (id, the rowid of the borrowing, keeps rows that agree on every selected
\* column apart)
Joined(bks, sts, brs) ==
    UNION {{[id |-> brs[i].id, title |-> bks[j].title, author |-> bks[j].author,
             student_name |-> sts[k].name, student_id |-> sts[k].student_id,
             borrow_date |-> brs[i].borrow_date, due_date |-> brs[i].due_date,
             return_date |-> brs[i].return_date] :
               j \in {j \in DOMAIN bks : bks[j].id = brs[i].book_id},
               k \in {k \in DOMAIN sts : sts[k].id = brs[i].student_id}} :
           i \in DOMAIN brs}

(***************************************************************************)
(* LibraryDatabase: each query returns the set of row sequences the SELECT *)
(* may return (one sequence, but for rows that tie under ORDER BY).        *)
(***************************************************************************)
GetAllBooks(bks) == bks

\* a filter that also keeps the books with no copy left
GetAvailableBooksOrNone(bks) ==
    Where(bks, [i \in DOMAIN bks |-> bks[i].available_copies >= 0])

GetAvailableBooks(bks) ==
    Where(bks, [i \in DOMAIN bks |-> bks[i].available_copies > 0])

GetUnavailableBooks(bks) ==
    Where(bks, [i \in DOMAIN bks |-> bks[i].available_copies = 0])

SearchBooksByTitle(bks, title) ==
    Where(bks, [i \in DOMAIN bks |-> LikeContains(bks[i].title, title)])

SearchBooksByAuthor(bks, author) ==
    Where(bks, [i \in DOMAIN bks |-> LikeContains(bks[i].author, author)])

SearchBooksByGenre(bks, genre) ==
    Where(bks, [i \in DOMAIN bks |-> LikeContains(bks[i].genre, genre)])

GetAllStudents(sts) == sts

Status(row) == IF row.return_date = Null THEN "Currently Borrowed" ELSE "Returned"

GetBooksBorrowedByStudent(bks, sts, brs, name) ==
    SortedOrders({[title |-> r.title, author |-> r.author, borrow_date |-> r.borrow_date,
                   due_date |-> r.due_date, return_date |-> r.return_date,
                   status |-> Status(r), id |-> r.id] :
                     r \in {j \in Joined(bks, sts, brs) : LikeContains(j.student_name, name)}},
                 "borrow_date", TRUE)

BorrowingRow(r) ==
    [id |-> r.id, student_name |-> r.student_name, student_id |-> r.student_id,
     title |-> r.title, author |-> r.author, borrow_date |-> r.borrow_date,
     due_date |-> r.due_date]

GetAllCurrentBorrowings(bks, sts, brs) ==
    SortedOrders({BorrowingRow(r) : r \in {j \in Joined(bks, sts, brs) :
                                             j.return_date = Null}},
                 "due_date", FALSE)

\* a comparison that also takes the borrowings due on the date
GetOverdueBooksOrDue(bks, sts, brs, current_date) ==
    SortedOrders({BorrowingRow(r) : r \in {j \in Joined(bks, sts, brs) :
                                             /\ j.return_date = Null
                                             /\ ~DateLess(current_date, j.due_date)}},
                 "due_date", FALSE)

GetOverdueBooks(bks, sts, brs, current_date) ==
    SortedOrders({BorrowingRow(r) : r \in {j \in Joined(bks, sts, brs) :
                                             /\ j.return_date = Null
                                             /\ DateLess(j.due_date, current_date)}},
                 "due_date", FALSE)

GetBorrowingHistory(bks, sts, brs) ==
    SortedOrders({[id |-> r.id, student_name |-> r.student_name, title |-> r.title,
                   borrow_date |-> r.borrow_date, due_date |-> r.due_date,
                   return_date |-> r.return_date] : r \in Joined(bks, sts, brs)},
                 "borrow_date", TRUE)

GetBookAvailability(bks, title) ==
    LET hits == SearchBooksByTitle(bks, title)
    IN  [i \in DOMAIN hits |->
            [title |-> hits[i].title, author |-> hits[i].author,
             total_copies |-> hits[i].total_copies,
             available_copies |-> hits[i].available_copies,
             borrowed_copies |-> hits[i].total_copies - hits[i].available_copies]]

\* grade is the decimal text of the integer bound to the parameter
GetStudentsByGrade(sts, grade) ==
    Where(sts, [i \in DOMAIN sts |-> ToString(sts[i].grade) = grade])

RECURSIVE SumOf(_, _, _)
SumOf(rows, field, i) ==
    IF i > Len(rows) THEN 0 ELSE rows[i][field] + SumOf(rows, field, i + 1)

\* SUM(field): <<the sum>>, and NULL over no rows
SqlSum(rows, field) == IF rows = <<>> THEN Null ELSE <<SumOf(rows, field, 1)>>

\* v or 0
OrZero(v) == IF v = Null THEN 0 ELSE v[1]

GetLibraryStats(bks, sts, brs) ==
    LET total_copies == SqlSum(bks, "total_copies")
        available_copies == SqlSum(bks, "available_copies")
    IN  [total_books |-> Len(bks),
         total_copies |-> OrZero(total_copies),
         available_copies |-> OrZero(available_copies),
         borrowed_copies |-> OrZero(total_copies) - OrZero(available_copies),
         total_students |-> Len(sts),
         active_borrowings |->
            Cardinality({i \in DOMAIN brs : brs[i].return_date = Null})]

(***************************************************************************)
(* LibraryChatAgent.  A response is the text of its first line (a message, *)
(* or the heading with the count) and the records printed under it.  A     *)
(* handler returns the set of its possible outcomes: the response, or the  *)
(* exception it raises, and the store queries it made.                     *)
(***************************************************************************)
Response(kind, text, rows) == [kind |-> kind, text |-> text, rows |-> rows]

Message(text) == Response("message", text, <<>>)

Outcome(response, calls) ==
    [raised |-> FALSE, error |-> "", response |-> response, calls |-> calls]

Raise(error, calls) ==
    [raised |-> TRUE, error |-> error, response |-> Message(""), calls |-> calls]

DbCall(fn, arg) == [fn |-> fn, arg |-> arg]

Heading(title, rows) == title \o " (" \o ToString(Len(rows)) \o " found):"

NoneFound(title) == Message("No " \o Lower(title) \o " found.")

FormatBooks(bks, title) ==
    IF bks = <<>> THEN NoneFound(title) ELSE Response("books", Heading(title, bks), bks)

FormatBorrowings(brs, title) ==
    IF brs = <<>> THEN NoneFound(title)
    ELSE Response("borrowings", Heading(title, brs), brs)

FormatStudents(sts, title) ==
    IF sts = <<>> THEN NoneFound(title)
    ELSE Response("students", Heading(title, sts), sts)

\* \b at s[i]: one of s[i-1], s[i] is a word character and the other is not
WordBoundary(s, i) ==
    (i > 1 /\ IsWordChar(CharAt(s, i - 1))) # (i <= Len(s) /\ IsWordChar(CharAt(s, i)))

StrayWords == <<"currently", "borrow", "borrowed", "has", "have", "did">>

\* re.sub(r'\b(currently|borrow|borrowed|has|have|did)\b', '', s)
RECURSIVE SubStrayWords(_, _)
SubStrayWords(s, i) ==
    IF i > Len(s) THEN ""
    ELSE LET hits == {w \in DOMAIN StrayWords :
                        /\ StartsWithAt(s, i, StrayWords[w])
                        /\ WordBoundary(s, i + Len(StrayWords[w]))}
         IN  IF WordBoundary(s, i) /\ hits # {}
             THEN SubStrayWords(s, i + Len(StrayWords[CHOOSE w \in hits :
                                                          \A v \in hits : w <= v]))
             ELSE CharAt(s, i) \o SubStrayWords(s, i + 1)

\* a handler that asks the store for whatever name is left
HandleStudentBorrowingsUnchecked(bks, sts, brs, cap) ==
    LET student_name == Strip(SubStrayWords(Strip(cap), 1))
    IN  {Outcome(FormatBorrowings(rows, "Books borrowed by '" \o student_name \o "'"),
                 <<DbCall("get_books_borrowed_by_student", student_name)>>) :
            rows \in GetBooksBorrowedByStudent(bks, sts, brs, student_name)}

HandleStudentBorrowings(bks, sts, brs, cap) ==
    LET student_name == Strip(SubStrayWords(Strip(cap), 1))
    IN  IF student_name = "" \/ Len(student_name) < 2
        THEN {Outcome(Message("Please specify a student name."), <<>>)}
        ELSE {Outcome(FormatBorrowings(rows, "Books borrowed by '" \o student_name \o "'"),
                      <<DbCall("get_books_borrowed_by_student", student_name)>>) :
                 rows \in GetBooksBorrowedByStudent(bks, sts, brs, student_name)}

HandleAvailableBooks(bks) ==
    {Outcome(FormatBooks(GetAvailableBooks(bks), "Available Books"),
             <<DbCall("get_available_books", "")>>)}

HandleUnavailableBooks(bks) ==
    {Outcome(FormatBooks(GetUnavailableBooks(bks), "Unavailable Books (All copies borrowed)"),
             <<DbCall("get_unavailable_books", "")>>)}

HandleAllBooks(bks) ==
    {Outcome(FormatBooks(GetAllBooks(bks), "All Library Books"),
             <<DbCall("get_all_books", "")>>)}

HandleSearchByAuthor(bks, cap) ==
    LET author == Strip(cap)
    IN  {Outcome(FormatBooks(SearchBooksByAuthor(bks, author), "Books by '" \o author \o "'"),
                 <<DbCall("search_books_by_author", author)>>)}

\* a letter is a cased character: str.title() starts a word after each
\* character that is not one
IsLetter(c) == c \in DOMAIN UpperToLower \/ c \in DOMAIN LowerToUpper

RECURSIVE TitleFrom(_, _)
TitleFrom(s, i) ==
    IF i > Len(s) THEN ""
    ELSE LET c == CharAt(s, i)
         IN  (IF i > 1 /\ IsLetter(CharAt(s, i - 1)) THEN LowerChar(c)
              ELSE IF c \in DOMAIN LowerToUpper THEN LowerToUpper[c] ELSE c)
             \o TitleFrom(s, i + 1)

\* str.title()
Title(s) == TitleFrom(s, 1)

SkipWords == {"all", "the", "list", "show", "available", "borrowed"}

HandleSearchByGenre(bks, cap) ==
    LET genre == Strip(cap)
        byGenre == SearchBooksByGenre(bks, genre)
        byTitle == SearchBooksByTitle(bks, genre)
        genreCall == DbCall("search_books_by_genre", genre)
        titleCall == DbCall("search_books_by_title", genre)
    IN  IF Lower(genre) \in SkipWords THEN HandleAllBooks(bks)
        ELSE IF byGenre # <<>>
        THEN {Outcome(FormatBooks(byGenre, "'" \o Title(genre) \o "' Books"), <<genreCall>>)}
        ELSE IF byTitle # <<>>
        THEN {Outcome(FormatBooks(byTitle, "Books matching '" \o genre \o "'"),
                      <<genreCall, titleCall>>)}
        ELSE {Outcome(Message("No books found for genre or title '" \o genre \o "'."),
                      <<genreCall, titleCall>>)}

HandleBookAvailability(bks, cap) ==
    LET title == Strip(cap)
        hits == GetBookAvailability(bks, title)
        call == DbCall("get_book_availability", title)
    IN  IF hits = <<>>
        THEN {Outcome(Message("No book found matching '" \o title \o "'."), <<call>>)}
        ELSE {Outcome(Response("availability", "Availability for '" \o title \o "':",
                               [i \in DOMAIN hits |->
                                   [title |-> hits[i].title, author |-> hits[i].author,
                                    status |-> IF hits[i].available_copies > 0
                                               THEN "Available" ELSE "Not Available",
                                    available_copies |-> hits[i].available_copies,
                                    total_copies |-> hits[i].total_copies]]),
                      <<call>>)}

HandleCurrentBorrowings(bks, sts, brs) ==
    {Outcome(FormatBorrowings(rows, "Current Borrowings"),
             <<DbCall("get_all_current_borrowings", "")>>) :
        rows \in GetAllCurrentBorrowings(bks, sts, brs)}

NoOverdueMessage == "No overdue books! All borrowed books are within their due dates."

\* get_overdue_books() takes the date of the call, now
HandleOverdueBooks(bks, sts, brs, now) ==
    {Outcome(IF rows = <<>> THEN Message(NoOverdueMessage)
             ELSE FormatBorrowings(rows, "Overdue Books"),
             <<DbCall("get_overdue_books", "")>>) :
        rows \in GetOverdueBooks(bks, sts, brs, now)}

HandleAllStudents(sts) ==
    {Outcome(FormatStudents(GetAllStudents(sts), "All Students"),
             <<DbCall("get_all_students", "")>>)}

\* int(digits) as its decimal text: the digits without their leading zeros
RECURSIVE IntText(_)
IntText(digits) ==
    IF Len(digits) > 1 /\ CharAt(digits, 1) = "0"
    THEN IntText(SubSeq(digits, 2, Len(digits)))
    ELSE digits

DigitValue ==
    ("0" :> 0) @@ ("1" :> 1) @@ ("2" :> 2) @@ ("3" :> 3) @@ ("4" :> 4) @@
    ("5" :> 5) @@ ("6" :> 6) @@ ("7" :> 7) @@ ("8" :> 8) @@ ("9" :> 9)

\* a < b for two decimal texts of the same length
RECURSIVE DigitsLess(_, _, _)
DigitsLess(a, b, i) ==
    /\ i <= Len(a)
    /\ LET x == DigitValue[CharAt(a, i)]
           y == DigitValue[CharAt(b, i)]
       IN  x < y \/ (x = y /\ DigitsLess(a, b, i + 1))

\* the largest value of an SQLite INTEGER, 2^63 - 1
SqliteMaxInt == "9223372036854775807"

\* binding a larger int to a parameter raises OverflowError
FitsSqliteInt(n) ==
    \/ Len(n) < Len(SqliteMaxInt)
    \/ Len(n) = Len(SqliteMaxInt) /\ ~DigitsLess(SqliteMaxInt, n, 1)

HandleStudentsByGrade(sts, cap) ==
    LET grade == IntText(cap)
    IN  IF ~FitsSqliteInt(grade)
        THEN {Raise("Python int too large to convert to SQLite INTEGER",
                    <<DbCall("get_students_by_grade", grade)>>)}
        ELSE {Outcome(FormatStudents(GetStudentsByGrade(sts, grade),
                                     "Grade " \o grade \o " Students"),
                      <<DbCall("get_students_by_grade", grade)>>)}

\* a statistics handler over sums that are left NULL: None - None raises
HandleLibraryStatsNullSum(bks, sts, brs) ==
    IF SqlSum(bks, "total_copies") = Null
    THEN {Raise("unsupported operand type(s) for -: 'NoneType' and 'NoneType'",
                <<DbCall("get_library_stats", "")>>)}
    ELSE {Outcome(Response("stats", "Library Statistics:",
                           <<GetLibraryStats(bks, sts, brs)>>),
                  <<DbCall("get_library_stats", "")>>)}

HandleLibraryStats(bks, sts, brs) ==
    {Outcome(Response("stats", "Library Statistics:", <<GetLibraryStats(bks, sts, brs)>>),
             <<DbCall("get_library_stats", "")>>)}

HandleBorrowingHistory(bks, sts, brs) ==
    {Outcome(FormatBorrowings(rows, "Borrowing History"),
             <<DbCall("get_borrowing_history", "")>>) :
        rows \in GetBorrowingHistory(bks, sts, brs)}

HandleHelp ==
    {Outcome(Response("help", "School Library Chat Agent - Help",
                      <<"BOOKS", "STUDENTS", "BORROWINGS", "OTHER">>), <<>>)}

HandleUnknown == Response("unknown", "I'm not sure how to answer that question.", <<>>)

\* handler(match)
Handle(handler, cap, bks, sts, brs, now) ==
    CASE handler = "student_borrowings" -> HandleStudentBorrowings(bks, sts, brs, cap)
      [] handler = "available_books" -> HandleAvailableBooks(bks)
      [] handler = "unavailable_books" -> HandleUnavailableBooks(bks)
      [] handler = "all_books" -> HandleAllBooks(bks)
      [] handler = "search_by_author" -> HandleSearchByAuthor(bks, cap)
      [] handler = "search_by_genre" -> HandleSearchByGenre(bks, cap)
      [] handler = "book_availability" -> HandleBookAvailability(bks, cap)
      [] handler = "current_borrowings" -> HandleCurrentBorrowings(bks, sts, brs)
      [] handler = "overdue_books" -> HandleOverdueBooks(bks, sts, brs, now)
      [] handler = "all_students" -> HandleAllStudents(sts)
      [] handler = "students_by_grade" -> HandleStudentsByGrade(sts, cap)
      [] handler = "library_stats" -> HandleLibraryStats(bks, sts, brs)
      [] handler = "borrowing_history" -> HandleBorrowingHistory(bks, sts, brs)
      [] handler = "help" -> HandleHelp

\* the table a query of the LibraryDatabase names first
FirstTable ==
    [get_all_books |-> "books", get_available_books |-> "books",
     get_unavailable_books |-> "books", search_books_by_title |-> "books",
     search_books_by_author |-> "books", search_books_by_genre |-> "books",
     get_book_availability |-> "books", get_library_stats |-> "books",
     get_all_students |-> "students", get_students_by_grade |-> "students",
     get_books_borrowed_by_student |-> "borrowings",
     get_all_current_borrowings |-> "borrowings", get_overdue_books |-> "borrowings",
     get_borrowing_history |-> "borrowings"]

\* handler(match) on the connection.  In a database file in which
\* setup_database has created no table (tables is FALSE) the first query the
\* handler makes raises sqlite3.OperationalError, before a parameter is bound.
HandleOn(tables, handler, cap, bks, sts, brs, now) ==
    IF tables THEN Handle(handler, cap, bks, sts, brs, now)
    ELSE {IF o.calls = <<>> THEN o
          ELSE Raise("no such table: " \o FirstTable[o.calls[1].fn], <<o.calls[1]>>) :
             o \in Handle(handler, cap, bks, sts, brs, now)}

Answer(response, dispatched, calls) ==
    [response |-> response, dispatched |-> dispatched, calls |-> calls]

\* a dispatch without the except clause: the exception leaves process_query
DispatchUncaught(table, k, m, bks, sts, brs, now, tables) ==
    {Answer(IF o.raised THEN Response("raised", o.error, <<>>) ELSE o.response,
            <<k>>, o.calls) :
        o \in HandleOn(tables, table[k].handler, m.cap, bks, sts, brs, now)}

\* the dispatch of entry k: try: return handler(match); except Exception as e: ...
Dispatch(table, k, m, bks, sts, brs, now, tables) ==
    {Answer(IF o.raised THEN Response("error", "Sorry, I encountered an error: " \o o.error,
                                      <<>>)
            ELSE o.response,
            <<k>>, o.calls) :
        o \in HandleOn(tables, table[k].handler, m.cap, bks, sts, brs, now)}

\* a scan that goes on to the later entries when the handler found nothing
RECURSIVE ScanPatternsPastEmpty(_, _, _, _, _, _, _, _)
ScanPatternsPastEmpty(table, k, q, bks, sts, brs, now, tables) ==
    IF k > Len(table) THEN {Answer(HandleUnknown, <<>>, <<>>)}
    ELSE LET m == ReSearch(table[k].re, q)
             found == Dispatch(table, k, m, bks, sts, brs, now, tables)
             later == ScanPatternsPastEmpty(table, k + 1, q, bks, sts, brs, now, tables)
         IN  IF ~m.ok THEN later
             ELSE IF \E a \in found : a.response.kind \notin {"message", "error"} THEN found
             ELSE {Answer(b.response, a.dispatched \o b.dispatched, a.calls \o b.calls) :
                      a \in found, b \in later}

\* for pattern, handler in self.patterns: ...; return self._handle_unknown()
RECURSIVE ScanPatterns(_, _, _, _, _, _, _, _)
ScanPatterns(table, k, q, bks, sts, brs, now, tables) ==
    IF k > Len(table) THEN {Answer(HandleUnknown, <<>>, <<>>)}
    ELSE LET m == ReSearch(table[k].re, q)
         IN  IF m.ok THEN Dispatch(table, k, m, bks, sts, brs, now, tables)
             ELSE ScanPatterns(table, k + 1, q, bks, sts, brs, now, tables)

\* query.strip().lower()
Normalize(query) == Lower(Strip(query))

EmptyQueryMessage == "Please enter a question about the library."

\* a process_query without the check for the empty query
ProcessQueryAnswersUnchecked(table, query, bks, sts, brs, now, tables) ==
    ScanPatterns(table, 1, Normalize(query), bks, sts, brs, now, tables)

\* process_query(query): the answers it may return
ProcessQueryAnswers(table, query, bks, sts, brs, now, tables) ==
    LET q == Normalize(query)
    IN  IF q = "" THEN {Answer(Message(EmptyQueryMessage), <<>>, <<>>)}
        ELSE ScanPatterns(table, 1, q, bks, sts, brs, now, tables)

(***************************************************************************)
(* Bounds of the model                                                     *)
(***************************************************************************)
\* the longest phrase, in words, that Phrases builds
MaxWords == 2

\* the most copies of a book that are on the shelf in a generated store
MaxSpare == 1

(***************************************************************************)
(* The stores the agent runs on: the store setup_database creates, and     *)
(* small stores in which a book's available_copies is its total_copies     *)
(* less its active borrowings.                                             *)
(***************************************************************************)
Store(bks, sts, brs) == [books |-> bks, students |-> sts, borrowings |-> brs]

SeededStore == Store(BooksData, StudentsData, BorrowingsData)

EmptyStore == Store(<<>>, <<>>, <<>>)

SmallStudents == <<Student(1, "Ann Lee", 9, "S2024001"), Student(2, "Ben Ray", 10, "S2024002")>>

LoanPool ==
    << Borrowing(1, 1, 1, <<2026, 1, 10>>, <<2026, 2, 10>>, Null),
       Borrowing(2, 2, 2, <<2026, 1, 5>>, <<2026, 2, 5>>, Null),
       Borrowing(3, 1, 2, <<2025, 12, 20>>, <<2026, 2, 5>>, <<2026, 1, 30>>) >>

ActiveLoans(brs, book) ==
    Cardinality({i \in DOMAIN brs : brs[i].book_id = book /\ brs[i].return_date = Null})

SmallBooks(brs, spare1, spare2) ==
    << Book(1, "Dune", "Frank Herbert", "Science Fiction",
            spare1 + ActiveLoans(brs, 1), spare1),
       Book(2, "The Fantasy Atlas", "Ann Orwell", "Reference",
            spare2 + ActiveLoans(brs, 2), spare2) >>

SmallStores ==
    {Store(SmallBooks(brs, s1, s2), SmallStudents, brs) :
        brs \in {Where(LoanPool, [i \in DOMAIN LoanPool |-> i \in keep]) :
                   keep \in SUBSET DOMAIN LoanPool},
        s1 \in 0..MaxSpare, s2 \in 0..MaxSpare}

Stores == {SeededStore, EmptyStore} \cup SmallStores

\* the dates on which the agent is asked
Todays == {<<2026, 1, 1>>, <<2026, 2, 10>>, <<2026, 11, 2>>}

(***************************************************************************)
(* The inputs                                                              *)
(***************************************************************************)
Queries ==
    { "", "   ", " \t\n",
      \* test_agent.py
      "What books are available?", "Show all books", "What books did Alice Chan borrow?",
      "Books by George Orwell", "Is The Hobbit available?", "Show current borrowings",
      "List all students", "Students in grade 10", "Library stats", "Fantasy books",
      "help", "xyzabc123",
      \* the help text
      "Current borrowings", "Overdue books", "Borrowing history",
      \* one phrasing for each entry of the pattern table
      "which book has bob borrowed", "books borrowed by grace", "Alice Chan's books",
      "alice chan's borrowed books", "which books are currently available",
      "available books", "books available", "books that are in stock",
      "which books are not available", "what books are borrowed out",
      "unavailable books", "list books", "get all the books", "all books",
      "book written by harper lee", "find orwell's books", "search tolkien books",
      "Dystopia Books", "books in the fantasy genre", "books of fiction genre",
      "are animal farm available", "check availability of 1984",
      "find availability for dune", "do you have 1984", "have charlotte's web",
      "active borrowing", "who has borrowed", "which students have borrowed",
      "what books are currently borrowed", "which books are overdue", "late returns",
      "late book", "show students", "who are the students", "grade 9 students",
      "student in grade 0012", "statistics", "summary", "how many books",
      "all borrowings", "what can you do", "commands",
      \* a possessive
      "bob lee's books", "the library's books", "'s books", "grace's book",
      \* the genre search
      "books in all genre", "books in hobbit genre", "books in zz genre",
      "books in _ genre", "books in % genre", "books in sci-fi genre",
      \* the student name
      "what books did has borrow", "books borrowed by a", "books borrowed by did bob",
      \* grades up to and beyond the largest SQLite INTEGER
      "grade 9223372036854775807 students", "grade 9223372036854775808 students",
      "students in grade 99999999999999999999",
      \* input in several lines
      "fantasy\nbooks", "late\nreturns", "x\n books", " HELP " }

Words == {"books", "book", "available", "unavailable", "all", "show", "fantasy", "overdue"}

RECURSIVE Phrases(_)
Phrases(n) ==
    IF n <= 1 THEN Words
    ELSE Phrases(n - 1) \cup {p \o " " \o w : p \in Phrases(n - 1), w \in Words}

Inputs == Queries \cup Phrases(MaxWords)

\* the inputs tried on the generated stores: those whose answer reads the store
StoreInputs ==
    { "books available", "books in stock", "books in fantasy genre",
      "books in the science genre", "books in zz genre", "books in _ genre",
      "late returns", "current borrowings", "library stats", "ann's books",
      "is dune available", "books by orwell", "students in grade 10" }

\* the inputs tried on a store without books: also those that read no table
BareInputs ==
    StoreInputs \cup {"students in grade 99999999999999999999", "help", "xyzabc123", ""}

(***************************************************************************)
(* The state machine: calls of process_query and of the LibraryDatabase    *)
(* queries, on one store, on one day.                                      *)
(***************************************************************************)
VARIABLES
    books, students, borrowings,   \* the tables of the store
    tables,                        \* whether setup_database has created the tables
    today,                         \* the date datetime.now() returns
    patterns,                      \* self.patterns
    pc,                            \* "idle", "returned" (process_query), "fetched" (a query)
    query,                         \* the argument of the last process_query
    response,                      \* what it returned
    dispatched,                    \* the entries whose handler it invoked
    calls,                         \* the store queries the handler made
    result,                        \* the rows the last LibraryDatabase query returned
    failed,                        \* the process_query call before this one returned an error
    conn,                          \* self.conn: "unopened", "open", "closed"
    opens, closes,                 \* how often the connection was opened, and closed
    at,                            \* where main() is; "tests" when test_agent.py drives
    user_input,                    \* the line main() read, stripped
    asked                          \* how often main() passed that line to process_query

vars == <<books, students, borrowings, tables, today, patterns, pc, query, response,
          dispatched, calls, result, failed, conn, opens, closes, at, user_input, asked>>

store == <<books, students, borrowings, tables>>

\* the connection, and the variables of main()
console == <<conn, opens, closes, at, user_input, asked>>

NoResponse == Response("none", "", <<>>)
NoResult == [fn |-> "", arg |-> Null, rows |-> <<>>]

\* the database file the connection is opened on, on a day
OnStore(S) ==
    /\ \E s \in S :
          /\ books = s.books
          /\ students = s.students
          /\ borrowings = s.borrowings
    /\ tables \in (IF books = <<>> THEN BOOLEAN ELSE {TRUE})
    /\ today \in Todays

NothingAsked ==
    /\ pc = "idle"
    /\ query = ""
    /\ response = NoResponse
    /\ dispatched = <<>>
    /\ calls = <<>>
    /\ result = NoResult
    /\ failed = FALSE

\* setUpClass: LibraryDatabase(db_path); LibraryChatAgent(db)
Init ==
    /\ OnStore(Stores)
    /\ patterns = BuildPatterns
    /\ NothingAsked
    /\ conn = "open"
    /\ opens = 1
    /\ closes = 0
    /\ at = "tests"
    /\ user_input = ""
    /\ asked = 0

InputsOn(bks) ==
    IF bks = BooksData THEN Inputs ELSE IF bks = <<>> THEN BareInputs ELSE StoreInputs

\* a process_query that drops the entry it dispatched to from self.patterns
ProcessedConsuming(q) ==
    /\ pc = "idle"
    /\ conn = "open"
    /\ \E a \in ProcessQueryAnswers(patterns, q, books, students, borrowings, today,
                                    tables) :
          /\ response' = a.response
          /\ dispatched' = a.dispatched
          /\ calls' = a.calls
          /\ patterns' = IF a.dispatched = <<>> THEN patterns
                         ELSE [i \in 1..(Len(patterns) - 1) |->
                                  IF i < a.dispatched[1] THEN patterns[i]
                                  ELSE patterns[i + 1]]
    /\ query' = q
    /\ pc' = "returned"
    /\ UNCHANGED <<store, today, result, failed>>

\* response = agent.process_query(q)
Processed(q) ==
    /\ pc = "idle"
    /\ conn = "open"
    /\ \E a \in ProcessQueryAnswers(patterns, q, books, students, borrowings, today,
                                    tables) :
          /\ response' = a.response
          /\ dispatched' = a.dispatched
          /\ calls' = a.calls
    /\ query' = q
    /\ pc' = "returned"
    /\ UNCHANGED <<store, today, patterns, result, failed>>

\* the caller has the returned value; the next call starts afresh
Returned ==
    /\ pc \in {"returned", "fetched"}
    /\ pc' = "idle"
    /\ query' = ""
    /\ response' = NoResponse
    /\ dispatched' = <<>>
    /\ calls' = <<>>
    /\ result' = NoResult
    /\ failed' = IF pc = "returned" THEN response.kind = "error" ELSE failed
    /\ UNCHANGED <<store, today, patterns>>

\* agent.process_query(q), called by a test
ProcessQuery(q) == Processed(q) /\ UNCHANGED console

\* a query of the LibraryDatabase that returns its rows
Fetched(fn, arg, rows) ==
    /\ pc = "idle"
    /\ conn = "open"
    /\ tables
    /\ result' = [fn |-> fn, arg |-> arg, rows |-> rows]
    /\ pc' = "fetched"
    /\ UNCHANGED <<store, today, patterns, query, response, dispatched, calls, failed,
                   console>>

\* the queries test_agent.py and the handlers make on the LibraryDatabase
CallGetAllBooks == Fetched("get_all_books", Null, GetAllBooks(books))

CallGetAvailableBooks == Fetched("get_available_books", Null, GetAvailableBooks(books))

CallGetUnavailableBooks == Fetched("get_unavailable_books", Null, GetUnavailableBooks(books))

CallGetOverdueBooks ==
    \E d \in Todays :
        \E rows \in GetOverdueBooks(books, students, borrowings, d) :
            Fetched("get_overdue_books", d, rows)

CallGetLibraryStats ==
    Fetched("get_library_stats", Null, <<GetLibraryStats(books, students, borrowings)>>)

\* the test takes the returned value
Return == Returned /\ UNCHANGED console

Next ==
    \/ \E q \in InputsOn(books) : ProcessQuery(q)
    \/ CallGetAllBooks
    \/ CallGetAvailableBooks
    \/ CallGetUnavailableBooks
    \/ CallGetOverdueBooks
    \/ CallGetLibraryStats
    \/ Return

Spec == Init /\ [][Next]_vars

(***************************************************************************)
(* main(): the console loop, on library.db as it is when the program       *)
(* starts (set up, set up and emptied, or not set up).                     *)
(***************************************************************************)
\* the lines typed at the prompt
Lines ==
    { "", "  ", "quit", " Exit ", "BYE", "q", "Q ", "quit now", "help", "Library stats",
      "Fantasy books", "students in grade 99999999999999999999", "xyzabc123",
      "Overdue books" }

Sentinels == {"quit", "exit", "bye", "q"}

MainInit ==
    /\ OnStore({SeededStore, EmptyStore})
    /\ patterns = <<>>
    /\ NothingAsked
    /\ conn = "unopened"
    /\ opens = 0
    /\ closes = 0
    /\ at = "start"
    /\ user_input = ""
    /\ asked = 0

\* db = LibraryDatabase("library.db"); agent = LibraryChatAgent(db)
MainStart ==
    /\ at = "start"
    /\ conn' = "open"
    /\ opens' = opens + 1
    /\ patterns' = BuildPatterns
    /\ at' = "prompt"
    /\ UNCHANGED <<store, today, pc, query, response, dispatched, calls, result, failed,
                   closes, user_input, asked>>

\* a read that takes the sentinels as they are typed
MainReadCaseSensitive(line) ==
    /\ at = "prompt"
    /\ user_input' = Strip(line)
    /\ asked' = 0
    /\ at' = IF Strip(line) = "" THEN "prompt"
             ELSE IF Strip(line) \in Sentinels THEN "ended"
             ELSE "ask"
    /\ UNCHANGED <<store, today, patterns, pc, query, response, dispatched, calls, result,
                   failed, conn, opens, closes>>

\* user_input = input("You: ").strip(); if not user_input: continue;
\* if user_input.lower() in ['quit', 'exit', 'bye', 'q']: break
MainRead(line) ==
    /\ at = "prompt"
    /\ user_input' = Strip(line)
    /\ asked' = 0
    /\ at' = IF Strip(line) = "" THEN "prompt"
             ELSE IF Lower(Strip(line)) \in Sentinels THEN "ended"
             ELSE "ask"
    /\ UNCHANGED <<store, today, patterns, pc, query, response, dispatched, calls, result,
                   failed, conn, opens, closes>>

\* input() raises an Exception (EOFError at the end of the input): the error
\* is printed and the loop goes on
MainReadFails ==
    /\ at = "prompt"
    /\ UNCHANGED vars

\* response = agent.process_query(user_input)
MainAsk ==
    /\ at = "ask"
    /\ Processed(user_input)
    /\ asked' = asked + 1
    /\ at' = "answer"
    /\ UNCHANGED <<conn, opens, closes, user_input>>

\* print(f"\nAgent: {response}")
MainPrint ==
    /\ at = "answer"
    /\ Returned
    /\ at' = "prompt"
    /\ UNCHANGED <<conn, opens, closes, user_input, asked>>

\* except KeyboardInterrupt: break
MainInterrupt ==
    /\ at \in {"prompt", "ask", "answer"}
    /\ at' = "ended"
    /\ UNCHANGED <<store, today, patterns, pc, query, response, dispatched, calls, result,
                   failed, conn, opens, closes, user_input, asked>>

\* db.close()
MainClose ==
    /\ at = "ended"
    /\ conn' = "closed"
    /\ closes' = closes + 1
    /\ at' = "exited"
    /\ UNCHANGED <<store, today, patterns, pc, query, response, dispatched, calls, result,
                   failed, opens, user_input, asked>>

MainNext ==
    \/ MainStart
    \/ \E line \in Lines : MainRead(line)
    \/ MainReadFails
    \/ MainAsk
    \/ MainPrint
    \/ MainInterrupt
    \/ MainClose

MainSpec == MainInit /\ [][MainNext]_vars

(***************************************************************************)
(* Properties                                                              *)
(***************************************************************************)
\* the entries of the table whose pattern matches q
MatchingEntries(q) == {k \in DOMAIN patterns : ReSearch(patterns[k].re, q).ok}

\* the index of the first entry of the table, from k on, whose pattern
\* matches q, and its match; 0 when none does
RECURSIVE FirstMatchFrom(_, _, _)
FirstMatchFrom(table, q, k) ==
    IF k > Len(table) THEN [index |-> 0, m |-> NoMatch]
    ELSE LET m == ReSearch(table[k].re, q)
         IN  IF m.ok THEN [index |-> k, m |-> m] ELSE FirstMatchFrom(table, q, k + 1)

FirstMatch(table, q) == FirstMatchFrom(table, q, 1)

\* the handler process_query dispatched to; "" when it dispatched to none
DispatchedHandler == IF dispatched = <<>> THEN "" ELSE patterns[dispatched[1]].handler

EndsWith(s, w) == Len(w) <= Len(s) /\ SubSeq(s, Len(s) - Len(w) + 1, Len(s)) = w

HasTitle(rows, title) == \E i \in DOMAIN rows : rows[i].title = title

\* C1: for an input that is not empty once trimmed and lowercased,
\* process_query invokes exactly one handler, that of the lowest entry whose
\* pattern matches, whatever that handler returns; when no entry matches it
\* invokes none and returns the unknown-query message.
C1_FirstMatchWins ==
    (pc = "returned" /\ Normalize(query) # "") =>
        LET matching == MatchingEntries(Normalize(query))
        IN  IF matching = {}
            THEN dispatched = <<>> /\ response = HandleUnknown
            ELSE /\ Len(dispatched) = 1
                 /\ dispatched[1] \in matching
                 /\ \A k \in matching : dispatched[1] <= k
                 /\ response.kind # "unknown"

\* the handler of entry 3 found nothing, and the later entry 13 matches too
C1_Witness ==
    /\ pc = "returned"
    /\ dispatched = <<3>>
    /\ response.kind = "message"
    /\ 13 \in MatchingEntries(Normalize(query))

\* C2: no entry of the pattern table is completely shadowed: each entry is
\* the first matching entry for some input.
C2_NoEntryShadowed ==
    \A k \in DOMAIN patterns :
        \E q \in Inputs : FirstMatch(patterns, Normalize(q)).index = k

\* q, less a question mark that ends it
Unquestioned(q) == IF EndsWith(q, "?") THEN SubSeq(q, 1, Len(q) - 1) ELSE q

\* the inputs '(what|which) book(s) (are|is) [currently] available'
AvailableForms ==
    {w \o " " \o b \o " " \o v \o " " \o c \o "available" :
        w \in {"what", "which"}, b \in {"book", "books"}, v \in {"are", "is"},
        c \in {"", "currently "}}

\* C3: on the seeded store "What books are available?" yields the
\* available-books listing, with The Hobbit in it; and every input
\* '(what|which) book(s) (are|is) [currently] available' is dispatched to
\* the available-books handler.
C3_AvailableBooksQuery ==
    (pc = "returned" /\ Unquestioned(Normalize(query)) \in AvailableForms) =>
        /\ DispatchedHandler = "available_books"
        /\ (books = BooksData /\ query = "What books are available?") =>
               /\ Contains(response.text, "Available Books")
               /\ HasTitle(response.rows, "The Hobbit")

\* C4: on the seeded store "Fantasy books" yields the listing of the fantasy
\* books; and an input '<genre> books' that names a genre of the store
\* yields the listing of the books of that genre.
C4_GenreBooksQuery ==
    \A i \in DOMAIN books :
        (pc = "returned" /\ Normalize(query) = Lower(books[i].genre) \o " books") =>
            /\ DispatchedHandler = "search_by_genre"
            /\ response.kind = "books"
            /\ \A j \in DOMAIN books :
                  books[j].genre = books[i].genre => HasTitle(response.rows, books[j].title)

\* the inputs '(list|show|get|what are) [all] [the] book(s)'
AllBooksForms ==
    {v \o " " \o a \o t \o b :
        v \in {"list", "show", "get", "what are"}, a \in {"", "all "}, t \in {"", "the "},
        b \in {"book", "books"}}

\* C5: an input '(list|show|get|what are) [all] [the] book(s)', or one that
\* contains 'all book(s)', is dispatched to the all-books handler, whose
\* response is titled "All Library Books" and counts the books of the store.
C5_AllBooksQuery ==
    (pc = "returned" /\ (\/ Normalize(query) \in AllBooksForms
                         \/ Contains(Normalize(query), "all book"))) =>
        /\ DispatchedHandler = "all_books"
        /\ books # <<>> =>
               response.text = "All Library Books (" \o ToString(Len(books)) \o " found):"

\* C6: an input "<name>'s books" is dispatched to the student-borrowings
\* handler; for "Alice Chan's books" by entry 3, and the name the store is
\* asked for is 'alice chan', without the possessive.
C6_PossessiveIsStudent ==
    (pc = "returned" /\ EndsWith(Normalize(query), "'s books")) =>
        /\ DispatchedHandler = "student_borrowings"
        /\ query = "Alice Chan's books" =>
               /\ dispatched = <<3>>
               /\ calls = <<DbCall("get_books_borrowed_by_student", "alice chan")>>

\* "Alice Chan's books" was answered, and the generic entry 13 matches it too
C6_Witness ==
    /\ pc = "returned"
    /\ query = "Alice Chan's books"
    /\ 13 \in MatchingEntries(Normalize(query))
    /\ response.kind = "borrowings"

Handlers == {patterns[k].handler : k \in DOMAIN patterns}

\* C7: every handler of the pattern table is reachable: some input's first
\* matching entry dispatches to it.
C7_EveryHandlerReachable ==
    \A h \in Handlers :
        \E q \in Inputs :
            LET first == FirstMatch(patterns, Normalize(q)).index
            IN  first # 0 /\ patterns[first].handler = h

IndexOf(rows, row) == {j \in DOMAIN rows : rows[j] = row}

\* C8: get_available_books returns exactly the books with available_copies
\* > 0 and get_unavailable_books exactly those with available_copies = 0;
\* and in the response to an input that matches an available-books
\* (unavailable-books) pattern every book record has available_copies > 0
\* (= 0).
C8_AvailabilityFilters ==
    /\ (pc = "fetched" /\ result.fn = "get_available_books") =>
           /\ \A j \in DOMAIN result.rows : result.rows[j].available_copies > 0
           /\ \A i \in DOMAIN books :
                 Cardinality(IndexOf(result.rows, books[i])) =
                    IF books[i].available_copies > 0 THEN 1 ELSE 0
    /\ (pc = "fetched" /\ result.fn = "get_unavailable_books") =>
           /\ \A j \in DOMAIN result.rows : result.rows[j].available_copies = 0
           /\ \A i \in DOMAIN books :
                 Cardinality(IndexOf(result.rows, books[i])) =
                    IF books[i].available_copies = 0 THEN 1 ELSE 0
    /\ (pc = "returned" /\ response.kind = "books") =>
           LET matching == MatchingEntries(Normalize(query))
           IN  /\ matching \cap {4, 5, 6} # {} =>
                     \A j \in DOMAIN response.rows : response.rows[j].available_copies > 0
               /\ matching \cap {7, 8} # {} =>
                     \A j \in DOMAIN response.rows : response.rows[j].available_copies = 0

\* the available books were listed on a store that has a book with no copy left
C8_Witness ==
    /\ pc = "returned"
    /\ 6 \in MatchingEntries(Normalize(query))
    /\ response.kind = "books"
    /\ calls = <<DbCall("get_available_books", "")>>
    /\ \E i \in DOMAIN books : books[i].available_copies = 0

\* C9: the genre search, for a term that is no stop word: when a book's
\* genre contains the term, the genre listing and no title query; when none
\* does but a title contains it, "Books matching '<term>'"; when neither,
\* the message that names the term as not found for genre or title.
C9_GenreFallbackChain ==
    (pc = "returned" /\ DispatchedHandler = "search_by_genre" /\ calls # <<>>
        /\ calls[1].fn = "search_books_by_genre") =>
        LET term == calls[1].arg
            inGenre == \E i \in DOMAIN books : Contains(Lower(books[i].genre), Lower(term))
            inTitle == \E i \in DOMAIN books : Contains(Lower(books[i].title), Lower(term))
        IN  IF inGenre
            THEN /\ response.kind = "books"
                 /\ response.text = Heading("'" \o Title(term) \o "' Books", response.rows)
                 /\ Len(calls) = 1
            ELSE IF inTitle
            THEN /\ response.kind = "books"
                 /\ response.text = Heading("Books matching '" \o term \o "'", response.rows)
            ELSE response = Message("No books found for genre or title '" \o term \o "'.")

ActiveBefore(d) ==
    {i \in DOMAIN borrowings :
        borrowings[i].return_date = Null /\ DateLess(borrowings[i].due_date, d)}

\* rows holds each borrowing that is active and due before d once, and nothing
\* else, by ascending due date
IsOverdueListing(rows, d) ==
    /\ Len(rows) = Cardinality(ActiveBefore(d))
    /\ \A i \in ActiveBefore(d) : \E j \in DOMAIN rows : rows[j].id = borrowings[i].id
    /\ \A j \in DOMAIN rows :
          \E i \in ActiveBefore(d) :
              /\ rows[j].id = borrowings[i].id
              /\ rows[j].due_date = borrowings[i].due_date
    /\ \A j, k \in DOMAIN rows : j < k => ~DateLess(rows[k].due_date, rows[j].due_date)

\* C10: get_overdue_books(d) returns exactly the borrowings that are not
\* returned and are due strictly before d, by ascending due date; the
\* overdue handler answers an empty result with its own message (on a
\* database that has its tables: without them the query raises).
C10_OverdueBooks ==
    /\ (pc = "fetched" /\ result.fn = "get_overdue_books") =>
           IsOverdueListing(result.rows, result.arg)
    /\ (pc = "returned" /\ DispatchedHandler = "overdue_books" /\ tables) =>
           IF ActiveBefore(today) = {}
           THEN response = Message(NoOverdueMessage)
           ELSE /\ response.kind = "borrowings"
                /\ IsOverdueListing(response.rows, today)

\* overdue borrowings were returned while another borrowing was due on the date
C10_Witness ==
    /\ pc = "fetched"
    /\ result.fn = "get_overdue_books"
    /\ result.rows # <<>>
    /\ \E i \in DOMAIN borrowings :
          borrowings[i].return_date = Null /\ borrowings[i].due_date = result.arg

\* the handler process_query dispatched to raises: it queries a database
\* file that has no tables, or it binds a grade beyond the largest INTEGER
HandlerRaises ==
    \/ ~tables /\ calls # <<>>
    \/ /\ DispatchedHandler = "students_by_grade"
       /\ ~FitsSqliteInt(IntText(FirstMatch(patterns, Normalize(query)).m.cap))

ErrorPrefix == "Sorry, I encountered an error:"

\* C11: an exception raised while the matched handler runs is caught in
\* process_query and returned as a text that starts "Sorry, I encountered an
\* error:"; no exception leaves process_query; and the call after one that
\* returned an error is routed and answered as any call is.
C11_HandlerErrorsCaught ==
    pc = "returned" =>
        /\ response.kind # "raised"
        /\ dispatched # <<>> => (HandlerRaises <=> response.kind = "error")
        /\ response.kind = "error" => StartsWithAt(response.text, 1, ErrorPrefix)
        /\ failed =>
              /\ Answer(response, dispatched, calls) \in
                    ProcessQueryAnswers(BuildPatterns, query, books, students, borrowings,
                                        today, tables)
              /\ LET first == FirstMatch(patterns, Normalize(query)).index
                 IN  dispatched = IF first = 0 THEN <<>> ELSE <<first>>

\* a call returned an error, and the call after it lists the students of a grade
C11_Witness ==
    /\ pc = "returned"
    /\ failed
    /\ response.kind = "students"
    /\ DispatchedHandler = "students_by_grade"

\* nothing but whitespace
IsBlank(s) == \A i \in 1..Len(s) : CharAt(s, i) \in Whitespace

\* C12: for an input that is empty once trimmed, process_query returns the
\* "Please enter a question about the library." message, which is not the
\* unknown-query message, invokes no handler and makes no store query.
C12_EmptyQuery ==
    (pc = "returned" /\ IsBlank(query)) =>
        /\ response = Message("Please enter a question about the library.")
        /\ response.text # HandleUnknown.text
        /\ response.kind # "unknown"
        /\ dispatched = <<>>
        /\ calls = <<>>

\* an input of a blank, a tab and a newline was answered
C12_Witness ==
    /\ pc = "returned"
    /\ query = " \t\n"
    /\ response.kind = "message"

\* the copies are counted as the claim says: borrowed is total less
\* available, and all three are 0 when there is no book
StatsAddUp(stats) ==
    /\ stats.borrowed_copies = stats.total_copies - stats.available_copies
    /\ books = <<>> =>
          /\ stats.total_copies = 0
          /\ stats.available_copies = 0
          /\ stats.borrowed_copies = 0

\* C13: get_library_stats on a store with no book returns 0 for the total,
\* the available and the borrowed copies, and the statistics handler then
\* returns the statistics, not an error; on every store the borrowed copies
\* are the total copies less the available copies.
C13_StatsOnEmptyStore ==
    /\ (pc = "fetched" /\ result.fn = "get_library_stats") =>
           StatsAddUp(result.rows[1])
    /\ (pc = "returned" /\ DispatchedHandler = "library_stats" /\ tables) =>
           /\ response.kind = "stats"
           /\ calls = <<DbCall("get_library_stats", "")>>
           /\ StatsAddUp(response.rows[1])

\* the statistics of a store whose tables are empty were returned
C13_Witness ==
    /\ pc = "returned"
    /\ books = <<>>
    /\ tables
    /\ response.kind = "stats"
    /\ response.rows[1].total_books = 0

\* one of currently, borrow, borrowed, has, have, did stands in s as a whole word
HasStrayWord(s) ==
    \E i \in 1..Len(s), w \in DOMAIN StrayWords :
        /\ WordBoundary(s, i)
        /\ StartsWithAt(s, i, StrayWords[w])
        /\ WordBoundary(s, i + Len(StrayWords[w]))

\* what the first matching entry captured of the query
Captured == FirstMatch(patterns, Normalize(query)).m.cap

\* C14: the student-borrowings handler removes the whole words currently,
\* borrow, borrowed, has, have, did from the captured text and trims it; when
\* fewer than 2 characters are left it returns "Please specify a student
\* name." and makes no store query; otherwise it makes exactly one store
\* query, whose name filter is the cleaned text.
C14_StudentNameChecked ==
    (pc = "returned" /\ DispatchedHandler = "student_borrowings") =>
        LET name == Strip(SubStrayWords(Strip(Captured), 1))
        IN  /\ ~HasStrayWord(name)
            /\ IF Len(name) < 2
               THEN /\ response = Message("Please specify a student name.")
                    /\ calls = <<>>
               ELSE /\ calls = <<DbCall("get_books_borrowed_by_student", name)>>
                    /\ Len(calls[1].arg) >= 2
                    /\ tables => Contains(response.text, "'" \o name \o "'")

\* the captured text was nothing but removed words: no name, and no query
C14_Witness ==
    /\ pc = "returned"
    /\ DispatchedHandler = "student_borrowings"
    /\ HasStrayWord(Captured)
    /\ response = Message("Please specify a student name.")
    /\ calls = <<>>

\* C15: no process_query call, whether it matched, did not match, was empty
\* or returned an error, changes the books, the students, the borrowings or
\* the pattern table; so what a call returns for an input on a store and a
\* date is what a fresh agent returns for it, whatever was asked before.
C15_NothingWritten ==
    /\ [][UNCHANGED <<books, students, borrowings, tables, patterns>>]_vars
    /\ [](pc = "returned" =>
            /\ patterns = BuildPatterns
            /\ Answer(response, dispatched, calls) \in
                  ProcessQueryAnswers(BuildPatterns, query, books, students, borrowings,
                                      today, tables))

\* after a call that returned an error, books of the seeded store are listed
C15_Witness ==
    /\ pc = "returned"
    /\ failed
    /\ books = BooksData
    /\ response.kind = "books"

\* C16: in the store setup_database creates, every book's available_copies
\* is its total_copies less the number of its borrowings that are not
\* returned, so that the borrowed copies of the statistics are its active
\* borrowings.
C16_SeededStoreConsistent ==
    (books = BooksData /\ borrowings = BorrowingsData) =>
        /\ \A i \in DOMAIN books :
              books[i].available_copies =
                 books[i].total_copies - ActiveLoans(borrowings, books[i].id)
        /\ LET stats == GetLibraryStats(books, students, borrowings)
           IN  stats.borrowed_copies = stats.active_borrowings

\* the line main() read last is a question: not empty, and no sentinel
IsQuestion(line) == line # "" /\ Lower(line) \notin Sentinels

\* where main() is, and what it has done with the line it read last
ConsoleInOrder ==
    /\ opens = (IF at = "start" THEN 0 ELSE 1)
    /\ closes = (IF at = "exited" THEN 1 ELSE 0)
    /\ conn = (IF at = "start" THEN "unopened" ELSE IF at = "exited" THEN "closed"
               ELSE "open")
    /\ user_input = Strip(user_input)
    /\ asked <= 1
    /\ ~IsQuestion(user_input) => asked = 0
    /\ at = "start" => user_input = "" /\ pc = "idle"
    /\ at = "prompt" => pc = "idle" /\ (IsQuestion(user_input) => asked = 1)
    /\ at = "ask" => pc = "idle" /\ IsQuestion(user_input) /\ asked = 0
    /\ at = "answer" => pc = "returned" /\ query = user_input /\ asked = 1
    /\ (user_input # "" /\ Lower(user_input) \in Sentinels) => at \in {"ended", "exited"}

\* C17: main() opens the connection once, before it reads a line; it passes
\* each line that is not empty and no sentinel to process_query exactly once
\* and prints the answer before it reads the next line; a line that is quit,
\* exit, bye or q once trimmed, in any letter case, ends the loop and is not
\* passed to process_query; after the loop the connection is closed exactly
\* once, and no query is processed after that.
C17_ConsoleLoop ==
    /\ [] ConsoleInOrder
    /\ [][/\ (pc = "idle" /\ pc' = "returned") =>
                /\ conn = "open" /\ conn' = "open"
                /\ query' = user_input
                /\ IsQuestion(user_input)
                /\ asked' = asked + 1
          /\ user_input' # user_input => conn = "open" /\ pc = "idle"
          /\ conn = "closed" => UNCHANGED vars
          /\ conn' # conn => \/ conn = "unopened" /\ conn' = "open"
                             \/ conn = "open" /\ conn' = "closed" /\ at = "ended"]_vars

\* after a question that returned an error, "Exit" ended the loop and the
\* connection was closed
C17_Witness ==
    /\ at = "exited"
    /\ user_input = "Exit"
    /\ failed
    /\ conn = "closed"

====
